---- MODULE Spec2Model ----
(***************************************************************************)
(* Motion-Photo muxing of process-photos.py: the SamsungTags footer        *)
(* encoder, the XMP directory rendering, create_motion_photo and the       *)
(* combination loop that calls it.                                         *)
(*                                                                         *)
(* Bytes are naturals 0..255, byte strings are sequences of bytes, text is *)
(* a TLA+ string.  An optional value (a Python name that may be unbound,   *)
(* an attribute that may be missing) is << >> when absent and <<v>> when   *)
(* present.                                                                *)
(***************************************************************************)
EXTENDS Integers, Sequences, FiniteSets, TLC

VARIABLES
    tags,        \* harness: a SamsungTags instance
    out,         \* harness: last values returned by the instance's methods
    xmp,         \* harness: inputs and result of the sidecar rendering
    fs,          \* the filesystem: path -> file, for the paths that exist
    undeletable, \* environment: the paths whose unlink() raises
    faults,      \* environment: number of failures injected so far
    job,         \* per job: the arguments of create_motion_photo
    pc,          \* per job: position in create_motion_photo
    loc,         \* per job: the local variables of create_motion_photo
    ret,         \* per job: how the call ended
    log,         \* per job: what the call logged
    trace,       \* per job: the steps taken, in order
    batch        \* the combination phase: its position, settings and current post

harnessVars == <<tags, out, xmp>>
muxVars == <<fs, undeletable, faults, job, pc, loc, ret, log, trace>>
outerVars == <<harnessVars, batch>>
vars == <<harnessVars, muxVars, batch>>

None == << >>
Some(v) == <<v>>
IsSome(o) == o # << >>
Val(o) == o[1]

JobIds == {1, 2}

\* a path: the pieces of the file name's stem, and its suffix without the dot
Path(name, ext) == [name |-> name, ext |-> ext]
NoPath == Path(<< >>, "")

\* the locals of create_motion_photo, all unbound
NoLocals ==
    [ video_bytes |-> None, tags |-> None, video_size |-> None, image_padding |-> None,
      xmp_content |-> None, xmp_path |-> None, temp_image_path |-> None,
      result |-> None, image_bytes |-> None, footer |-> None, exc |-> "" ]

\* the combination phase has not begun
NoBatch ==
    [ bpc |-> "off", idx |-> 0, post |-> << >>, visited |-> {}, failed |-> {},
      create_combined_images |-> "no", create_motion_photos |-> "no",
      convert_to_jpeg |-> "no", create_reversed_combined |-> "no" ]

\* no call of create_motion_photo is in progress
MuxIdle ==
    /\ fs = << >>
    /\ undeletable = {}
    /\ faults = 0
    /\ job = [j \in JobIds |-> [image_path |-> NoPath, video_path |-> NoPath]]
    /\ pc = [j \in JobIds |-> "idle"]
    /\ loc = [j \in JobIds |-> NoLocals]
    /\ ret = [j \in JobIds |-> "none"]
    /\ log = [j \in JobIds |-> << >>]
    /\ trace = [j \in JobIds |-> << >>]

(***************************************************************************)
(* Bounds of the model.                                                    *)
(***************************************************************************)
MaxVideoLen == 3
MaxImageSize == 2
MaxXmpValue == 12
MaxMuxVideoLen == 1
MaxPartial == 1
MaxFaults == 1
NPosts == 2

ByteVals == {0, 255}

RECURSIVE SeqsUpTo(_, _)
SeqsUpTo(S, n) ==
    IF n = 0 THEN {<< >>}
    ELSE LET shorter == SeqsUpTo(S, n - 1)
         IN  shorter \cup {Append(s, b) : s \in {t \in shorter : Len(t) = n - 1}, b \in S}

Videos == SeqsUpTo(ByteVals, MaxVideoLen)

(***************************************************************************)
(* Encodings.                                                              *)
(***************************************************************************)
\* bytes(s, "utf-8") for the ASCII strings the program encodes
Utf8(s) ==
    CASE s = "MotionPhoto_Data" ->
            <<77,111,116,105,111,110,80,104,111,116,111,95,68,97,116,97>>
      [] s = "MotionPhoto_Version" ->
            <<77,111,116,105,111,110,80,104,111,116,111,95,86,101,114,115,105,111,110>>
      [] s = "mpv3" -> <<109,112,118,51>>
      [] s = "SEFH" -> <<83,69,70,72>>
      [] s = "SEFT" -> <<83,69,70,84>>

\* len(s) of an ASCII string
StrLen(s) == Len(Utf8(s))

\* struct.pack("<i", n) for 0 <= n < 2^31
Pack32le(n) ==
    <<n % 256, (n \div 256) % 256, (n \div 65536) % 256, (n \div 16777216) % 256>>

\* a Python dict as a function; d.get(k, dflt) and d[k] = v
DictGet(d, k, dflt) == IF k \in DOMAIN d THEN d[k] ELSE dflt
DictPut(d, k, v) == [x \in (DOMAIN d) \cup {k} |-> IF x = k THEN v ELSE d[x]]

(***************************************************************************)
(* SamsungTags                                                             *)
(***************************************************************************)
\* the dict in insertion order
SAMSUNG_TAG_IDS ==
    << [name |-> "MotionPhoto_Data",    code |-> <<0, 0, 48, 10>>],
       [name |-> "MotionPhoto_Version", code |-> <<0, 0, 49, 10>>] >>

SAMSUNG_SEFH_VERSION == 107

NewSamsungTags(video_bytes) ==
    [ video_bytes |-> video_bytes,
      video_size  |-> Len(video_bytes),
      tags        |-> [MotionPhoto_Version |-> Utf8("mpv3"),
                       MotionPhoto_Data    |-> video_bytes],
      image_size  |-> None ]

set_image_size(self, image_size) == [self EXCEPT !.image_size = Some(image_size)]

\* the loop of get_image_padding from table entry i on, size accumulated so far
RECURSIVE PaddingLoop(_, _, _)
PaddingLoop(self, i, size) ==
    IF i > Len(SAMSUNG_TAG_IDS) THEN -1
    ELSE LET tag == SAMSUNG_TAG_IDS[i].name
             s3  == size + Len(SAMSUNG_TAG_IDS[i].code) + 4 + StrLen(tag)
         IN  IF tag \in DOMAIN self.tags
             THEN IF tag = "MotionPhoto_Data" THEN s3
                  ELSE PaddingLoop(self, i + 1, s3 + Len(self.tags[tag]))
             ELSE PaddingLoop(self, i + 1, size)

\* faulty variant: the size is returned after the video payload was added to it
PaddingPastPayload(self) ==
    PaddingLoop(self, 1, 0) + Len(self.tags["MotionPhoto_Data"])

\* faulty variant: the size of the whole MotionPhoto_Version record
PaddingOfVersionRecord(self) ==
    Len(SAMSUNG_TAG_IDS[2].code) + 4 + StrLen("MotionPhoto_Version")
        + Len(self.tags["MotionPhoto_Version"])

get_image_padding(self) == PaddingLoop(self, 1, 0)

\* faulty variant: a record without its int32 name-length field
TagBytesWithoutLength(self, i) ==
    LET tag == SAMSUNG_TAG_IDS[i].name
    IN  SAMSUNG_TAG_IDS[i].code \o Utf8(tag) \o self.tags[tag]

\* one tag's record: type code, int32 name length, name, payload
TagBytes(self, i) ==
    LET tag == SAMSUNG_TAG_IDS[i].name
    IN  SAMSUNG_TAG_IDS[i].code \o Pack32le(StrLen(tag)) \o Utf8(tag) \o self.tags[tag]

\* faulty variant: the inner loop without its break
RECURSIVE OffsetLoopNoBreak(_, _, _, _, _)
OffsetLoopNoBreak(self, tag, tag_length, tag_offsets, k) ==
    IF k > Len(SAMSUNG_TAG_IDS) THEN tag_offsets
    ELSE LET preceding_tag == SAMSUNG_TAG_IDS[k].name
         IN  IF preceding_tag \in DOMAIN self.tags
             THEN OffsetLoopNoBreak(self, tag, tag_length,
                     DictPut(tag_offsets, preceding_tag,
                             tag_length + DictGet(tag_offsets, preceding_tag, 0)), k + 1)
             ELSE OffsetLoopNoBreak(self, tag, tag_length, tag_offsets, k + 1)

\* the inner loop over preceding_tag, from table entry k on
RECURSIVE OffsetLoop(_, _, _, _, _)
OffsetLoop(self, tag, tag_length, tag_offsets, k) ==
    IF k > Len(SAMSUNG_TAG_IDS) THEN tag_offsets
    ELSE LET preceding_tag == SAMSUNG_TAG_IDS[k].name
         IN  IF preceding_tag \in DOMAIN self.tags
             THEN LET upd == DictPut(tag_offsets, preceding_tag,
                                     tag_length + DictGet(tag_offsets, preceding_tag, 0))
                  IN  IF preceding_tag = tag THEN upd
                      ELSE OffsetLoop(self, tag, tag_length, upd, k + 1)
             ELSE OffsetLoop(self, tag, tag_length, tag_offsets, k + 1)

\* the first loop of video_footer from table entry i on; acc holds its three locals
RECURSIVE TagLoop(_, _, _)
TagLoop(self, i, acc) ==
    IF i > Len(SAMSUNG_TAG_IDS) THEN acc
    ELSE LET tag == SAMSUNG_TAG_IDS[i].name
         IN  IF tag \in DOMAIN self.tags
             THEN LET tag_bytes  == TagBytes(self, i)
                      tag_length == Len(tag_bytes)
                  IN  TagLoop(self, i + 1,
                        [ tag_data    |-> acc.tag_data \o tag_bytes,
                          tag_lengths |-> DictPut(acc.tag_lengths, tag, tag_length),
                          tag_offsets |-> OffsetLoop(self, tag, tag_length,
                                                     acc.tag_offsets, 1) ])
             ELSE TagLoop(self, i + 1, acc)

\* the second loop of video_footer: one header entry per present tag
RECURSIVE SefhEntries(_, _, _)
SefhEntries(self, acc, i) ==
    IF i > Len(SAMSUNG_TAG_IDS) THEN << >>
    ELSE LET tag == SAMSUNG_TAG_IDS[i].name
         IN  IF tag \in DOMAIN self.tags
             THEN SAMSUNG_TAG_IDS[i].code \o Pack32le(acc.tag_offsets[tag])
                    \o Pack32le(acc.tag_lengths[tag]) \o SefhEntries(self, acc, i + 1)
             ELSE SefhEntries(self, acc, i + 1)

\* faulty variant: the header block without its own length field
SefhWithoutLength(self, acc) ==
    Utf8("SEFH") \o Pack32le(SAMSUNG_SEFH_VERSION)
        \o Pack32le(Cardinality(DOMAIN self.tags)) \o SefhEntries(self, acc, 1)
        \o Utf8("SEFT")

Sefh(self, acc) ==
    LET sefh == Utf8("SEFH") \o Pack32le(SAMSUNG_SEFH_VERSION)
                  \o Pack32le(Cardinality(DOMAIN self.tags)) \o SefhEntries(self, acc, 1)
    IN  sefh \o Pack32le(Len(sefh)) \o Utf8("SEFT")

video_footer(self) ==
    LET acc == TagLoop(self, 1, [tag_data |-> << >>, tag_lengths |-> << >>,
                                 tag_offsets |-> << >>])
    IN  acc.tag_data \o Sefh(self, acc)

\* faulty variant: the padding is not subtracted
VideoSizeWholeFooter(self) == Len(video_footer(self))

get_video_size(self) == Len(video_footer(self)) - get_image_padding(self)

(***************************************************************************)
(* Harness for the encoder: an instance built from any bounded video, its  *)
(* methods called in any order.                                            *)
(***************************************************************************)
NoOut == [padding |-> None, video_size |-> None, footer |-> None]
NoXmp == [padding |-> 0, video_size |-> 0, content |-> None]

InitTags ==
    /\ tags \in {NewSamsungTags(v) : v \in Videos}
    /\ out = NoOut
    /\ xmp = NoXmp
    /\ MuxIdle
    /\ batch = NoBatch

CallSetImageSize ==
    /\ \E n \in 0..MaxImageSize : tags' = set_image_size(tags, n)
    /\ UNCHANGED <<out, xmp, muxVars, batch>>

CallGetImagePadding ==
    /\ out' = [out EXCEPT !.padding = Some(get_image_padding(tags))]
    /\ UNCHANGED <<tags, xmp, muxVars, batch>>

CallGetVideoSize ==
    /\ out' = [out EXCEPT !.video_size = Some(get_video_size(tags))]
    /\ UNCHANGED <<tags, xmp, muxVars, batch>>

CallVideoFooter ==
    /\ out' = [out EXCEPT !.footer = Some(video_footer(tags))]
    /\ UNCHANGED <<tags, xmp, muxVars, batch>>

NextTags ==
    \/ CallSetImageSize
    \/ CallGetImagePadding
    \/ CallGetVideoSize
    \/ CallVideoFooter

SpecTags == InitTags /\ [][NextTags]_vars

(***************************************************************************)
(* The XMP directory descriptor.                                           *)
(***************************************************************************)
\* MOTION_PHOTO_XMP_TEMPLATE as the concatenation of these pieces: whole lines,
\* with every Item:Length / Item:Padding attribute a piece of its own
MOTION_PHOTO_XMP_TEMPLATE ==
    << "<x:xmpmeta xmlns:x=\"adobe:ns:meta/\" x:xmptk=\"Adobe XMP Core 5.1.0-jc003\">\n",
       "  <rdf:RDF xmlns:rdf=\"http://www.w3.org/1999/02/22-rdf-syntax-ns#\">\n",
       "    <rdf:Description rdf:about=\"\"\n",
       "        xmlns:GCamera=\"http://ns.google.com/photos/1.0/camera/\"\n",
       "        xmlns:Container=\"http://ns.google.com/photos/1.0/container/\"\n",
       "        xmlns:Item=\"http://ns.google.com/photos/1.0/container/item/\"\n",
       "      GCamera:MotionPhoto=\"1\"\n",
       "      GCamera:MotionPhotoVersion=\"1\"\n",
       "      GCamera:MotionPhotoPresentationTimestampUs=\"-1\">\n",
       "      <Container:Directory>\n",
       "        <rdf:Seq>\n",
       "          <rdf:li rdf:parseType=\"Resource\">\n",
       "            <Container:Item\n",
       "              Item:Mime=\"image/jpeg\"\n",
       "              Item:Semantic=\"Primary\"\n",
       "              ", "Item:Length=\"0\"", "\n",
       "              ", "Item:Padding=\"{padding}\"", "/>\n",
       "          </rdf:li>\n",
       "          <rdf:li rdf:parseType=\"Resource\">\n",
       "            <Container:Item\n",
       "              Item:Mime=\"video/mp4\"\n",
       "              Item:Semantic=\"MotionPhoto\"\n",
       "              ", "Item:Length=\"{length}\"", "\n",
       "              ", "Item:Padding=\"0\"", "/>\n",
       "          </rdf:li>\n",
       "        </rdf:Seq>\n",
       "      </Container:Directory>\n",
       "    </rdf:Description>\n",
       "  </rdf:RDF>\n",
       "</x:xmpmeta>" >>

Digit(d) ==
    CASE d = 0 -> "0" [] d = 1 -> "1" [] d = 2 -> "2" [] d = 3 -> "3" [] d = 4 -> "4"
      [] d = 5 -> "5" [] d = 6 -> "6" [] d = 7 -> "7" [] d = 8 -> "8" [] d = 9 -> "9"

\* f"{n}" for an int n >= 0
RECURSIVE Decimal(_)
Decimal(n) == IF n < 10 THEN Digit(n) ELSE Decimal(n \div 10) \o Digit(n % 10)

\* text.replace(old, new): every occurrence of old lies in a piece equal to old
StrReplace(text, old, new) ==
    [i \in DOMAIN text |-> IF text[i] = old THEN new ELSE text[i]]

\* the three replace calls that build xmp_content
RenderXmp(video_size, image_padding) ==
    LET r1 == StrReplace(MOTION_PHOTO_XMP_TEMPLATE, "Item:Length=\"0\"",
                         "Item:Length=\"" \o Decimal(video_size) \o "\"")
        r2 == StrReplace(r1, "Item:Padding=\"{padding}\"",
                         "Item:Padding=\"" \o Decimal(image_padding) \o "\"")
    IN  StrReplace(r2, "Item:Length=\"{length}\"",
                   "Item:Length=\"" \o Decimal(video_size) \o "\"")

(***************************************************************************)
(* Harness for the rendering: any bounded pair of values.                  *)
(***************************************************************************)
InitXmp ==
    /\ xmp \in [padding : 0..MaxXmpValue, video_size : 0..MaxXmpValue, content : {None}]
    /\ tags = NewSamsungTags(<< >>)
    /\ out = NoOut
    /\ MuxIdle
    /\ batch = NoBatch

CallRenderXmp ==
    /\ xmp' = [xmp EXCEPT !.content = Some(RenderXmp(xmp.video_size, xmp.padding))]
    /\ UNCHANGED <<tags, out, muxVars, batch>>

NextXmp == CallRenderXmp

SpecXmp == InitXmp /\ [][NextXmp]_vars

(***************************************************************************)
(* The filesystem and the external tool.                                   *)
(***************************************************************************)
\* a file: its own bytes, the XMP block it carries (pieces of text, << >> when it
\* carries none) and the bytes that follow it
File(data, meta, trail) == [data |-> data, meta |-> meta, trail |-> trail]

EmptyFile == File(<< >>, << >>, << >>)

RECURSIVE TextLen(_)
TextLen(text) == IF text = << >> THEN 0 ELSE Len(Head(text)) + TextLen(Tail(text))

\* len() of a file read whole
FileLen(f) == Len(f.data) + TextLen(f.meta) + Len(f.trail)

Exists(p) == p \in DOMAIN fs
FsWrite(f, p, c) == DictPut(f, p, c)
FsUnlink(f, p) == [q \in (DOMAIN f) \ {p} |-> f[q]]

\* image_path.with_suffix(suffix)
with_suffix(p, suffix) == [p EXCEPT !.ext = suffix]

\* image_path.with_name(f"temp_{image_path.name}")
TempName(p) == [p EXCEPT !.name = <<"temp_">> \o p.name]

\* the lengths a write of b may reach before it fails
PartialLens(b) == {k \in 0..MaxPartial : k < Len(b)}

\* exiftool -overwrite_original -tagsfromfile SIDECAR -xmp IMAGE, exit status 0:
\* the image carries the sidecar's XMP
ExifToolInject(image, sidecar) == [image EXCEPT !.meta = sidecar.meta]

\* exiftool can do its work: both files are there and the sidecar holds XMP
ExifToolCanRun(f, sidecar_path, image_path) ==
    /\ sidecar_path \in DOMAIN f
    /\ image_path \in DOMAIN f
    /\ f[sidecar_path].meta # << >>

(***************************************************************************)
(* create_motion_photo, one action per step; j is the call.                *)
(***************************************************************************)
LogEntry(level, text, detail) == [level |-> level, text |-> text, detail |-> detail]

CanFault == faults < MaxFaults

\* with open(video_path, "rb") as f: video_bytes = f.read()
MuxReadVideo(j) ==
    /\ pc[j] = "read_video"
    /\ trace' = [trace EXCEPT ![j] = Append(@, "read_video")]
    /\ IF Exists(job[j].video_path)
       THEN /\ loc' = [loc EXCEPT ![j].video_bytes = Some(fs[job[j].video_path].data)]
            /\ pc' = [pc EXCEPT ![j] = "compute"]
       ELSE /\ loc' = [loc EXCEPT ![j].exc = "FileNotFoundError"]
            /\ pc' = [pc EXCEPT ![j] = "except"]
    /\ UNCHANGED <<fs, undeletable, faults, job, ret, log, outerVars>>

\* tags, video_size, image_padding and the three replace calls
MuxComputeTags(j) ==
    /\ pc[j] = "compute"
    /\ \E t \in {NewSamsungTags(Val(loc[j].video_bytes))} :
       \E vs \in {get_video_size(t)}, ip \in {get_image_padding(t)} :
          loc' = [loc EXCEPT ![j].tags = Some(t),
                             ![j].video_size = Some(vs),
                             ![j].image_padding = Some(ip),
                             ![j].xmp_content = Some(RenderXmp(vs, ip))]
    /\ pc' = [pc EXCEPT ![j] = "write_sidecar"]
    /\ trace' = [trace EXCEPT ![j] = Append(@, "compute")]
    /\ UNCHANGED <<fs, undeletable, faults, job, ret, log, outerVars>>

\* xmp_path = ...; with open(xmp_path, "w") as f: f.write(xmp_content)
MuxWriteSidecar(j) ==
    /\ pc[j] = "write_sidecar"
    /\ trace' = [trace EXCEPT ![j] = Append(@, "write_sidecar")]
    /\ LET xmp_path == with_suffix(job[j].image_path, "xmp_temp")
       IN  \/ /\ fs' = FsWrite(fs, xmp_path, File(<< >>, Val(loc[j].xmp_content), << >>))
              /\ loc' = [loc EXCEPT ![j].xmp_path = Some(xmp_path)]
              /\ pc' = [pc EXCEPT ![j] = "copy_image"]
              /\ UNCHANGED faults
           \/ /\ CanFault
              /\ faults' = faults + 1
              /\ \/ fs' = fs                                 \* open() raises
                 \/ fs' = FsWrite(fs, xmp_path, EmptyFile)   \* write() raises
              /\ loc' = [loc EXCEPT ![j].xmp_path = Some(xmp_path), ![j].exc = "OSError"]
              /\ pc' = [pc EXCEPT ![j] = "except"]
    /\ UNCHANGED <<undeletable, job, ret, log, outerVars>>

\* temp_image_path = ...; shutil.copy2(image_path, temp_image_path)
MuxCopyImage(j) ==
    /\ pc[j] = "copy_image"
    /\ trace' = [trace EXCEPT ![j] = Append(@, "copy_image")]
    /\ LET image_path == job[j].image_path
           temp_image_path == TempName(image_path)
       IN  IF ~Exists(image_path)
           THEN /\ loc' = [loc EXCEPT ![j].temp_image_path = Some(temp_image_path),
                                      ![j].exc = "FileNotFoundError"]
                /\ pc' = [pc EXCEPT ![j] = "except"]
                /\ UNCHANGED <<fs, faults>>
           ELSE \/ /\ fs' = FsWrite(fs, temp_image_path, fs[image_path])
                   /\ loc' = [loc EXCEPT ![j].temp_image_path = Some(temp_image_path)]
                   /\ pc' = [pc EXCEPT ![j] = "run_tool"]
                   /\ UNCHANGED faults
                \/ /\ CanFault
                   /\ faults' = faults + 1
                   /\ \/ fs' = fs                            \* cannot create the copy
                      \/ \E k \in PartialLens(fs[image_path].data) :
                            fs' = FsWrite(fs, temp_image_path,
                                          File(SubSeq(fs[image_path].data, 1, k), << >>, << >>))
                   /\ loc' = [loc EXCEPT ![j].temp_image_path = Some(temp_image_path),
                                         ![j].exc = "OSError"]
                   /\ pc' = [pc EXCEPT ![j] = "except"]
    /\ UNCHANGED <<undeletable, job, ret, log, outerVars>>

\* result = subprocess.run(cmd, ..., check=False)
MuxRunTool(j) ==
    /\ pc[j] = "run_tool"
    /\ trace' = [trace EXCEPT ![j] = Append(@, "run_tool")]
    /\ LET xmp_path == Val(loc[j].xmp_path)
           temp_image_path == Val(loc[j].temp_image_path)
           able == ExifToolCanRun(fs, xmp_path, temp_image_path)
       IN  \/ /\ able                                        \* exit status 0
              /\ fs' = FsWrite(fs, temp_image_path,
                               ExifToolInject(fs[temp_image_path], fs[xmp_path]))
              /\ loc' = [loc EXCEPT ![j].result =
                            Some([returncode |-> 0, stderr |-> "", decodes |-> TRUE])]
              /\ pc' = [pc EXCEPT ![j] = "delete_sidecar"]
              /\ UNCHANGED faults
           \/ /\ ~able                                       \* the tool finds no input
              /\ loc' = [loc EXCEPT ![j].result =
                            Some([returncode |-> 1, stderr |-> "File not found",
                                  decodes |-> TRUE])]
              /\ pc' = [pc EXCEPT ![j] = "delete_sidecar"]
              /\ UNCHANGED <<fs, faults>>
           \/ /\ CanFault                                    \* the tool fails
              /\ faults' = faults + 1
              /\ \E d \in BOOLEAN :
                    loc' = [loc EXCEPT ![j].result =
                               Some([returncode |-> 1, stderr |-> "Error: diagnostic",
                                     decodes |-> d])]
              /\ pc' = [pc EXCEPT ![j] = "delete_sidecar"]
              /\ UNCHANGED fs
           \/ /\ CanFault                                    \* no exiftool to run
              /\ faults' = faults + 1
              /\ loc' = [loc EXCEPT ![j].exc = "FileNotFoundError"]
              /\ pc' = [pc EXCEPT ![j] = "except"]
              /\ UNCHANGED fs
    /\ UNCHANGED <<undeletable, job, ret, log, outerVars>>

\* faulty variant: the exit status is examined with the sidecar still in place
MuxKeepSidecar(j) ==
    /\ pc[j] = "delete_sidecar"
    /\ pc' = [pc EXCEPT ![j] = "check_status"]
    /\ UNCHANGED <<fs, loc, ret, log, trace, undeletable, faults, job, outerVars>>

\* if xmp_path.exists(): xmp_path.unlink()
MuxDeleteSidecar(j) ==
    /\ pc[j] = "delete_sidecar"
    /\ trace' = [trace EXCEPT ![j] = Append(@, "delete_sidecar")]
    /\ LET xmp_path == Val(loc[j].xmp_path)
       IN  IF Exists(xmp_path) /\ xmp_path \in undeletable
           THEN /\ loc' = [loc EXCEPT ![j].exc = "PermissionError"]
                /\ pc' = [pc EXCEPT ![j] = "except"]
                /\ UNCHANGED fs
           ELSE /\ fs' = FsUnlink(fs, xmp_path)
                /\ pc' = [pc EXCEPT ![j] = "check_status"]
                /\ UNCHANGED loc
    /\ UNCHANGED <<undeletable, faults, job, ret, log, outerVars>>

\* faulty variant: the exit status is not examined
MuxCheckStatusIgnoresExit(j) ==
    /\ pc[j] = "check_status"
    /\ pc' = [pc EXCEPT ![j] = "read_temp"]
    /\ UNCHANGED <<fs, loc, ret, log, trace, undeletable, faults, job, outerVars>>

\* if result.returncode != 0: log, delete the working copy, return False
MuxCheckStatus(j) ==
    /\ pc[j] = "check_status"
    /\ LET result == Val(loc[j].result)
           temp_image_path == Val(loc[j].temp_image_path)
       IN  IF result.returncode = 0
           THEN /\ pc' = [pc EXCEPT ![j] = "read_temp"]
                /\ UNCHANGED <<fs, loc, ret, log, trace>>
           ELSE IF ~result.decodes               \* result.stderr.decode('utf-8') raises
           THEN /\ loc' = [loc EXCEPT ![j].exc = "UnicodeDecodeError"]
                /\ pc' = [pc EXCEPT ![j] = "except"]
                /\ UNCHANGED <<fs, ret, log, trace>>
           ELSE /\ log' = [log EXCEPT ![j] =
                             Append(@, LogEntry("error", "ExifTool failed", result.stderr))]
                /\ IF Exists(temp_image_path) /\ temp_image_path \in undeletable
                   THEN /\ loc' = [loc EXCEPT ![j].exc = "PermissionError"]
                        /\ pc' = [pc EXCEPT ![j] = "except"]
                        /\ trace' = [trace EXCEPT ![j] = Append(@, "delete_temp")]
                        /\ UNCHANGED <<fs, ret>>
                   ELSE /\ fs' = FsUnlink(fs, temp_image_path)
                        /\ trace' = [trace EXCEPT ![j] =
                              IF Exists(temp_image_path) THEN Append(@, "delete_temp") ELSE @]
                        /\ ret' = [ret EXCEPT ![j] = "False"]
                        /\ pc' = [pc EXCEPT ![j] = "returned"]
                        /\ UNCHANGED loc
    /\ UNCHANGED <<undeletable, faults, job, outerVars>>

\* with open(temp_image_path, "rb") as f: image_bytes = f.read()
MuxReadTemp(j) ==
    /\ pc[j] = "read_temp"
    /\ trace' = [trace EXCEPT ![j] = Append(@, "read_temp")]
    /\ LET temp_image_path == Val(loc[j].temp_image_path)
       IN  \/ /\ Exists(temp_image_path)
              /\ loc' = [loc EXCEPT ![j].image_bytes = Some(fs[temp_image_path])]
              /\ pc' = [pc EXCEPT ![j] = "delete_temp"]
              /\ UNCHANGED faults
           \/ /\ ~Exists(temp_image_path)
              /\ loc' = [loc EXCEPT ![j].exc = "FileNotFoundError"]
              /\ pc' = [pc EXCEPT ![j] = "except"]
              /\ UNCHANGED faults
           \/ /\ Exists(temp_image_path)
              /\ CanFault                                    \* the read fails
              /\ faults' = faults + 1
              /\ loc' = [loc EXCEPT ![j].exc = "OSError"]
              /\ pc' = [pc EXCEPT ![j] = "except"]
    /\ UNCHANGED <<fs, undeletable, job, ret, log, outerVars>>

\* if temp_image_path.exists(): temp_image_path.unlink()
MuxDeleteTemp(j) ==
    /\ pc[j] = "delete_temp"
    /\ trace' = [trace EXCEPT ![j] = Append(@, "delete_temp")]
    /\ LET temp_image_path == Val(loc[j].temp_image_path)
       IN  IF Exists(temp_image_path) /\ temp_image_path \in undeletable
           THEN /\ loc' = [loc EXCEPT ![j].exc = "PermissionError"]
                /\ pc' = [pc EXCEPT ![j] = "except"]
                /\ UNCHANGED fs
           ELSE /\ fs' = FsUnlink(fs, temp_image_path)
                /\ pc' = [pc EXCEPT ![j] = "footer"]
                /\ UNCHANGED loc
    /\ UNCHANGED <<undeletable, faults, job, ret, log, outerVars>>

\* faulty variant: the footer depends on the image size set just before
MuxFooterWithImageSize(j) ==
    /\ pc[j] = "footer"
    /\ \E t \in {set_image_size(Val(loc[j].tags), FileLen(Val(loc[j].image_bytes)))} :
       \E footer \in {video_footer(t) \o Pack32le(Val(t.image_size))} :
          loc' = [loc EXCEPT ![j].tags = Some(t), ![j].footer = Some(footer)]
    /\ pc' = [pc EXCEPT ![j] = "write_final"]
    /\ trace' = [trace EXCEPT ![j] = Append(@, "footer")]
    /\ UNCHANGED <<fs, undeletable, faults, job, ret, log, outerVars>>

\* tags.set_image_size(len(image_bytes)); footer = tags.video_footer()
MuxFooter(j) ==
    /\ pc[j] = "footer"
    /\ \E t \in {set_image_size(Val(loc[j].tags), FileLen(Val(loc[j].image_bytes)))} :
       \E footer \in {video_footer(t)} :
          loc' = [loc EXCEPT ![j].tags = Some(t), ![j].footer = Some(footer)]
    /\ pc' = [pc EXCEPT ![j] = "write_final"]
    /\ trace' = [trace EXCEPT ![j] = Append(@, "footer")]
    /\ UNCHANGED <<fs, undeletable, faults, job, ret, log, outerVars>>

\* what open(image_path, "wb"), write(image_bytes), write(footer) leave behind
\* when one of them fails after the file was truncated
FailedWrites(image_bytes, footer) ==
    {File(SubSeq(image_bytes.data, 1, k), << >>, << >>) : k \in PartialLens(image_bytes.data)}
    \cup {[image_bytes EXCEPT !.trail = @ \o SubSeq(footer, 1, k)] : k \in PartialLens(footer)}

\* with open(image_path, "wb") as f: f.write(image_bytes); f.write(footer)
MuxWriteFinal(j) ==
    /\ pc[j] = "write_final"
    /\ trace' = [trace EXCEPT ![j] = Append(@, "write_final")]
    /\ LET image_bytes == Val(loc[j].image_bytes)
           footer == Val(loc[j].footer)
       IN  \/ /\ fs' = FsWrite(fs, job[j].image_path,
                               [image_bytes EXCEPT !.trail = @ \o footer])
              /\ log' = [log EXCEPT ![j] =
                           Append(@, LogEntry("info", "Successfully muxed Motion Photo", ""))]
              /\ ret' = [ret EXCEPT ![j] = "True"]
              /\ pc' = [pc EXCEPT ![j] = "returned"]
              /\ UNCHANGED <<faults, loc>>
           \/ /\ CanFault
              /\ faults' = faults + 1
              /\ \/ fs' = fs                                 \* open() raises
                 \/ \E c \in FailedWrites(image_bytes, footer) :
                       fs' = FsWrite(fs, job[j].image_path, c)
              /\ loc' = [loc EXCEPT ![j].exc = "OSError"]
              /\ pc' = [pc EXCEPT ![j] = "except"]
              /\ UNCHANGED <<ret, log>>
    /\ UNCHANGED <<undeletable, job, outerVars>>

\* except Exception as e: log, delete the sidecar and the working copy, return False
MuxExcept(j) ==
    /\ pc[j] = "except"
    /\ log' = [log EXCEPT ![j] =
                 Append(@, LogEntry("error", "Failed to create Motion Photo", loc[j].exc))]
    /\ LET xmp_there  == IsSome(loc[j].xmp_path) /\ Exists(Val(loc[j].xmp_path))
           fs1        == IF xmp_there THEN FsUnlink(fs, Val(loc[j].xmp_path)) ELSE fs
           temp_there == /\ IsSome(loc[j].temp_image_path)
                         /\ Val(loc[j].temp_image_path) \in DOMAIN fs1
           fs2        == IF temp_there THEN FsUnlink(fs1, Val(loc[j].temp_image_path)) ELSE fs1
       IN  IF xmp_there /\ Val(loc[j].xmp_path) \in undeletable
           THEN /\ fs' = fs                     \* xmp_path.unlink() raises out of the handler
                /\ loc' = [loc EXCEPT ![j].exc = "PermissionError"]
                /\ ret' = [ret EXCEPT ![j] = "raised"]
                /\ pc' = [pc EXCEPT ![j] = "raised"]
                /\ trace' = [trace EXCEPT ![j] = Append(@, "delete_sidecar")]
           ELSE IF temp_there /\ Val(loc[j].temp_image_path) \in undeletable
           THEN /\ fs' = fs1                    \* temp_image_path.unlink() raises
                /\ loc' = [loc EXCEPT ![j].exc = "PermissionError"]
                /\ ret' = [ret EXCEPT ![j] = "raised"]
                /\ pc' = [pc EXCEPT ![j] = "raised"]
                /\ trace' = [trace EXCEPT ![j] =
                      (IF xmp_there THEN Append(@, "delete_sidecar") ELSE @)
                         \o <<"delete_temp">>]
           ELSE /\ fs' = fs2
                /\ ret' = [ret EXCEPT ![j] = "False"]
                /\ pc' = [pc EXCEPT ![j] = "returned"]
                /\ trace' = [trace EXCEPT ![j] =
                      (IF xmp_there THEN Append(@, "delete_sidecar") ELSE @)
                         \o (IF temp_there THEN <<"delete_temp">> ELSE << >>)]
                /\ UNCHANGED loc
    /\ UNCHANGED <<undeletable, faults, job, outerVars>>

\* the call is over: it returned or its exception escaped
Ended(j) == pc[j] \in {"returned", "raised"}

(***************************************************************************)
(* One call of create_motion_photo on an image and a video.                *)
(***************************************************************************)
MuxVideos == SeqsUpTo(ByteVals, MaxMuxVideoLen)

\* the image a job starts from
OrigImage(j) == File(<<255, 216, j>>, << >>, << >>)

SoloImage == Path(<<"a">>, "jpg")
SoloVideo == Path(<<"v">>, "mp4")

Init ==
    /\ tags = NewSamsungTags(<< >>)
    /\ out = NoOut
    /\ xmp = NoXmp
    /\ batch = NoBatch
    /\ job = [j \in JobIds |->
                IF j = 1 THEN [image_path |-> SoloImage, video_path |-> SoloVideo]
                ELSE [image_path |-> NoPath, video_path |-> NoPath]]
    /\ \E v \in MuxVideos, present \in BOOLEAN :
          fs = IF present
               THEN (SoloImage :> OrigImage(1)) @@ (SoloVideo :> File(v, << >>, << >>))
               ELSE (SoloImage :> OrigImage(1))
    /\ undeletable \in SUBSET {with_suffix(SoloImage, "xmp_temp"), TempName(SoloImage)}
    /\ faults = 0
    /\ pc = [j \in JobIds |-> IF j = 1 THEN "read_video" ELSE "idle"]
    /\ loc = [j \in JobIds |-> NoLocals]
    /\ ret = [j \in JobIds |-> "none"]
    /\ log = [j \in JobIds |-> << >>]
    /\ trace = [j \in JobIds |-> << >>]

Next ==
    \/ MuxReadVideo(1)
    \/ MuxComputeTags(1)
    \/ MuxWriteSidecar(1)
    \/ MuxCopyImage(1)
    \/ MuxRunTool(1)
    \/ MuxDeleteSidecar(1)
    \/ MuxCheckStatus(1)
    \/ MuxReadTemp(1)
    \/ MuxDeleteTemp(1)
    \/ MuxFooter(1)
    \/ MuxWriteFinal(1)
    \/ MuxExcept(1)

Spec == Init /\ [][Next]_vars

(***************************************************************************)
(* The combination phase: the loop over the posts, calling                 *)
(* create_motion_photo as call 1.                                          *)
(***************************************************************************)
YesNo == {"yes", "no"}

\* what the loop reads of a post
PostKinds == [p_is_video : BOOLEAN, s_is_video : BOOLEAN, has_bts : BOOLEAN]

\* combined_path and bts_info['path'] of post i
CombinedPath(i) ==
    Path(<<Decimal(i), "_combined">>, IF batch.convert_to_jpeg = "yes" THEN "jpg" ELSE "webp")
BtsPath(i) == Path(<<Decimal(i), "_bts">>, "mp4")

InitBatch ==
    /\ tags = NewSamsungTags(<< >>)
    /\ out = NoOut
    /\ xmp = NoXmp
    /\ batch \in [ bpc : {"start"}, idx : {0}, post : {None}, visited : {{}}, failed : {{}},
                   create_combined_images : YesNo, create_motion_photos : YesNo,
                   convert_to_jpeg : YesNo, create_reversed_combined : YesNo ]
    /\ fs = [q \in {BtsPath(i) : i \in 1..NPosts} |->
                File(<<(CHOOSE i \in 1..NPosts : BtsPath(i) = q) % 256>>, << >>, << >>)]
    /\ undeletable = {}
    /\ faults = 0
    /\ job = [j \in JobIds |-> [image_path |-> NoPath, video_path |-> NoPath]]
    /\ pc = [j \in JobIds |-> "idle"]
    /\ loc = [j \in JobIds |-> NoLocals]
    /\ ret = [j \in JobIds |-> "none"]
    /\ log = [j \in JobIds |-> << >>]
    /\ trace = [j \in JobIds |-> << >>]

\* if create_combined_images == 'yes':
BatchStart ==
    /\ batch.bpc = "start"
    /\ batch' = [batch EXCEPT !.bpc =
                    IF batch.create_combined_images = "yes" THEN "loop" ELSE "cleanup"]
    /\ UNCHANGED <<harnessVars, muxVars>>

\* for prim, sec in zip(primary_assets, secondary_assets): ...
BatchLoopHead ==
    /\ batch.bpc = "loop"
    /\ IF batch.idx < NPosts
       THEN \E kind \in PostKinds :
               batch' = [batch EXCEPT !.bpc = "standard", !.idx = @ + 1,
                                      !.post = Some(kind), !.visited = @ \cup {batch.idx + 1}]
       ELSE batch' = [batch EXCEPT !.bpc = "cleanup", !.post = None]
    /\ UNCHANGED <<harnessVars, muxVars>>

\* 1. STANDARD COMBINATION
BatchStandard ==
    /\ batch.bpc = "standard"
    /\ LET post == Val(batch.post)
       IN  IF ~post.p_is_video /\ ~post.s_is_video
           THEN \/ /\ fs' = FsWrite(fs, CombinedPath(batch.idx), OrigImage(batch.idx))
                   /\ batch' = [batch EXCEPT !.bpc = "motion"]
                   /\ UNCHANGED faults
                \/ /\ CanFault                   \* combine_images or img.save raises
                   /\ faults' = faults + 1
                   /\ batch' = [batch EXCEPT !.bpc = "except"]
                   /\ UNCHANGED fs
           ELSE /\ batch' = [batch EXCEPT !.bpc = "reversed"]
                /\ UNCHANGED <<fs, faults>>
    /\ UNCHANGED <<harnessVars, undeletable, job, pc, loc, ret, log, trace>>

\* if create_motion_photos == 'yes' and bts_info and ...: create_motion_photo(...)
BatchCallMux ==
    /\ batch.bpc = "motion"
    /\ IF /\ batch.create_motion_photos = "yes"
          /\ Val(batch.post).has_bts
          /\ batch.convert_to_jpeg = "yes"
       THEN /\ batch' = [batch EXCEPT !.bpc = "in_mux"]
            /\ job' = [job EXCEPT ![1] = [image_path |-> CombinedPath(batch.idx),
                                          video_path |-> BtsPath(batch.idx)]]
            /\ pc' = [pc EXCEPT ![1] = "read_video"]
            /\ loc' = [loc EXCEPT ![1] = NoLocals]
            /\ ret' = [ret EXCEPT ![1] = "none"]
            /\ log' = [log EXCEPT ![1] = << >>]
            /\ trace' = [trace EXCEPT ![1] = << >>]
            /\ \/ /\ undeletable' = {}
                  /\ UNCHANGED faults
               \/ /\ CanFault                   \* some unlink() will be refused
                  /\ faults' = faults + 1
                  /\ undeletable' \in
                        (SUBSET {with_suffix(CombinedPath(batch.idx), "xmp_temp"),
                                 TempName(CombinedPath(batch.idx))}) \ {{}}
       ELSE /\ batch' = [batch EXCEPT !.bpc = "reversed"]
            /\ UNCHANGED <<job, pc, loc, ret, log, trace, undeletable, faults>>
    /\ UNCHANGED <<harnessVars, fs>>

\* create_motion_photo is over: its value is dropped, its exception propagates
BatchMuxReturn ==
    /\ batch.bpc = "in_mux"
    /\ Ended(1)
    /\ batch' = [batch EXCEPT
                    !.bpc = IF ret[1] = "raised" THEN "except" ELSE "reversed",
                    !.failed = IF ret[1] = "True" THEN @ ELSE @ \cup {batch.idx}]
    /\ pc' = [pc EXCEPT ![1] = "idle"]
    /\ loc' = [loc EXCEPT ![1] = NoLocals]       \* the frame is gone
    /\ ret' = [ret EXCEPT ![1] = "none"]
    /\ log' = [log EXCEPT ![1] = << >>]
    /\ trace' = [trace EXCEPT ![1] = << >>]
    /\ job' = [job EXCEPT ![1] = [image_path |-> NoPath, video_path |-> NoPath]]
    /\ undeletable' = {}
    /\ UNCHANGED <<harnessVars, fs, faults>>

\* 2. REVERSED COMBINATION
BatchReversed ==
    /\ batch.bpc = "reversed"
    /\ LET post == Val(batch.post)
       IN  \/ /\ batch' = [batch EXCEPT !.bpc = "loop"]
              /\ UNCHANGED faults
           \/ /\ batch.create_reversed_combined = "yes"
              /\ ~post.p_is_video /\ ~post.s_is_video
              /\ CanFault                        \* combine_images or img.save raises
              /\ faults' = faults + 1
              /\ batch' = [batch EXCEPT !.bpc = "except"]
    /\ UNCHANGED <<harnessVars, fs, undeletable, job, pc, loc, ret, log, trace>>

\* faulty variant: the except clause of the loop body leaves the loop
BatchExceptBreaks ==
    /\ batch.bpc = "except"
    /\ batch' = [batch EXCEPT !.bpc = "cleanup", !.post = None]
    /\ UNCHANGED <<harnessVars, muxVars>>

\* except Exception as e: logging.error(...)
BatchExcept ==
    /\ batch.bpc = "except"
    /\ batch' = [batch EXCEPT !.bpc = "loop"]
    /\ UNCHANGED <<harnessVars, muxVars>>

\* remove_backup_files(...), the WebP cleanup, "Finished processing"
BatchCleanup ==
    /\ batch.bpc = "cleanup"
    /\ batch' = [batch EXCEPT !.bpc = "finished"]
    /\ UNCHANGED <<harnessVars, muxVars>>

NextBatch ==
    \/ BatchStart
    \/ BatchLoopHead
    \/ BatchStandard
    \/ BatchCallMux
    \/ MuxReadVideo(1)
    \/ MuxComputeTags(1)
    \/ MuxWriteSidecar(1)
    \/ MuxCopyImage(1)
    \/ MuxRunTool(1)
    \/ MuxDeleteSidecar(1)
    \/ MuxCheckStatus(1)
    \/ MuxReadTemp(1)
    \/ MuxDeleteTemp(1)
    \/ MuxFooter(1)
    \/ MuxWriteFinal(1)
    \/ MuxExcept(1)
    \/ BatchMuxReturn
    \/ BatchReversed
    \/ BatchExcept
    \/ BatchCleanup

\* the script is one sequential process: a step that can be taken is taken
SpecBatch == InitBatch /\ [][NextBatch]_vars /\ WF_vars(NextBatch)

(***************************************************************************)
(* Two calls of create_motion_photo at once, on two image paths of one     *)
(* directory; their steps interleave over the one filesystem.              *)
(***************************************************************************)
\* the image paths the second call may be given, all different from SoloImage
OtherImages == {Path(<<"a">>, "png"), Path(<<"temp_", "a">>, "jpg"), Path(<<"b">>, "jpg")}

ConcVideoPath(j) == Path(<<IF j = 1 THEN "v1" ELSE "v2">>, "mp4")

\* the two videos differ in length, so the two sidecars differ
ConcVideo(j) == File([i \in 1..j |-> 255], << >>, << >>)

InitConc ==
    /\ tags = NewSamsungTags(<< >>)
    /\ out = NoOut
    /\ xmp = NoXmp
    /\ batch = NoBatch
    /\ \E other \in OtherImages :
          /\ job = [j \in JobIds |->
                      [image_path |-> IF j = 1 THEN SoloImage ELSE other,
                       video_path |-> ConcVideoPath(j)]]
          /\ fs = (SoloImage :> OrigImage(1)) @@ (other :> OrigImage(2))
                    @@ (ConcVideoPath(1) :> ConcVideo(1))
                    @@ (ConcVideoPath(2) :> ConcVideo(2))
    /\ undeletable = {}
    /\ faults = 0
    /\ pc = [j \in JobIds |-> "read_video"]
    /\ loc = [j \in JobIds |-> NoLocals]
    /\ ret = [j \in JobIds |-> "none"]
    /\ log = [j \in JobIds |-> << >>]
    /\ trace = [j \in JobIds |-> << >>]

NextConc ==
    \E j \in JobIds :
        \/ MuxReadVideo(j)
        \/ MuxComputeTags(j)
        \/ MuxWriteSidecar(j)
        \/ MuxCopyImage(j)
        \/ MuxRunTool(j)
        \/ MuxDeleteSidecar(j)
        \/ MuxCheckStatus(j)
        \/ MuxReadTemp(j)
        \/ MuxDeleteTemp(j)
        \/ MuxFooter(j)
        \/ MuxWriteFinal(j)
        \/ MuxExcept(j)

SpecConc == InitConc /\ [][NextConc]_vars

(***************************************************************************)
(* Reading a footer back, the way a consumer of the format does.           *)
(***************************************************************************)
Unpack32le(b) == b[1] + 256 * b[2] + 65536 * b[3] + 16777216 * b[4]

\* the number of bytes before "SEFH", from the length field that precedes "SEFT"
SefhStart(f) == Len(f) - 8 - Unpack32le(SubSeq(f, Len(f) - 7, Len(f) - 4))

\* the size of the header block, "SEFH" through "SEFT"
HeaderBlockLen(f) == Len(f) - SefhStart(f)

ParsedCount(f) == Unpack32le(SubSeq(f, SefhStart(f) + 9, SefhStart(f) + 12))

ParsedEntry(f, i) ==
    LET b == SefhStart(f) + 12 + 12 * (i - 1)
    IN  [ code   |-> SubSeq(f, b + 1, b + 4),
          offset |-> Unpack32le(SubSeq(f, b + 5, b + 8)),
          length |-> Unpack32le(SubSeq(f, b + 9, b + 12)) ]

NTags == Len(SAMSUNG_TAG_IDS)
RecordLen(i) == Len(TagBytes(tags, i))

\* the record lengths of table entries from..to, added up
RECURSIVE SumRecordLens(_, _)
SumRecordLens(from, to) ==
    IF from > to THEN 0 ELSE RecordLen(from) + SumRecordLens(from + 1, to)

\* the records of table entries from..to, concatenated
RECURSIVE Records(_, _)
Records(from, to) ==
    IF from > to THEN << >> ELSE TagBytes(tags, from) \o Records(from + 1, to)

TagIndex(name) == CHOOSE i \in 1..NTags : SAMSUNG_TAG_IDS[i].name = name

\* a record's bytes before its payload: type code, length field, name
RecordPrefix(i) ==
    SAMSUNG_TAG_IDS[i].code \o Pack32le(StrLen(SAMSUNG_TAG_IDS[i].name))
        \o Utf8(SAMSUNG_TAG_IDS[i].name)

(***************************************************************************)
(* Claims about create_motion_photo (specification Spec).                  *)
(***************************************************************************)
\* the video a job embeds, and the file a successful mux leaves at image_path
VideoOf(j) == fs[job[j].video_path].data

CompleteImage(j) ==
    LET t == NewSamsungTags(VideoOf(j))
    IN  File(OrigImage(j).data, RenderXmp(get_video_size(t), get_image_padding(t)),
             video_footer(t))

SidecarOf(j) == with_suffix(job[j].image_path, "xmp_temp")
WorkingCopyOf(j) == TempName(job[j].image_path)

ToolFailed(j) == IsSome(loc[j].result) /\ Val(loc[j].result).returncode # 0

\* C1: when a call has ended, however it ended, image_path holds exactly the
\* original image or exactly the complete tagged image followed by the complete
\* footer, never a truncated or partly written file.
C1_NoPartialOutput ==
    \A j \in JobIds :
        Ended(j) => /\ Exists(job[j].image_path)
                    /\ \/ fs[job[j].image_path] = OrigImage(j)
                       \/ /\ Exists(job[j].video_path)
                          /\ fs[job[j].image_path] = CompleteImage(j)

\* C2: when a call has ended, on any path, neither the sidecar nor the working
\* copy exists (a file whose unlink() the system refuses is excused).
C2_NoTemporariesLeft ==
    \A j \in JobIds :
        Ended(j) => \A p \in {SidecarOf(j), WorkingCopyOf(j)} :
                        p \notin undeletable => ~Exists(p)

C5_OffsetsFromRegionStart ==
    IsSome(out.footer) =>
        LET f == Val(out.footer)
        IN  \A i \in 1..NTags :
                LET e == ParsedEntry(f, i)
                IN  /\ e.offset = SumRecordLens(1, i)
                    /\ e.length = RecordLen(i)
                    /\ SubSeq(f, e.offset - e.length + 1, e.offset) = TagBytes(tags, i)

\* C5 as amended: each header entry's length is its record's length and its offset
\* is the byte count from the start of that record to "SEFH" (the lengths of that
\* record and of every later one); measured back from "SEFH", the pair locates the
\* record in the body.
C5_OffsetsBackFromSefh ==
    IsSome(out.footer) =>
        LET f == Val(out.footer)
        IN  /\ ParsedCount(f) = NTags
            /\ SubSeq(f, SefhStart(f) + 1, SefhStart(f) + 4) = Utf8("SEFH")
            /\ \A i \in 1..NTags :
                LET e == ParsedEntry(f, i)
                    at == SefhStart(f) - e.offset
                IN  /\ e.code = SAMSUNG_TAG_IDS[i].code
                    /\ e.length = RecordLen(i)
                    /\ e.offset = SumRecordLens(i, NTags)
                    /\ SubSeq(f, at + 1, at + e.length) = TagBytes(tags, i)

C5_Witness ==
    /\ IsSome(out.footer)
    /\ Len(tags.video_bytes) = MaxVideoLen
    /\ ParsedEntry(Val(out.footer), 1).offset > ParsedEntry(Val(out.footer), 1).length

\* C6 as stated: the footer of a video of length L is
\* (8 + 19 + 4) + (8 + 16 + L) + (8 + 4 + 4 + (8+4+4)*2 + 4 + 4) bytes long.
C6_LengthWithWideHeader ==
    IsSome(out.footer) =>
        Len(Val(out.footer)) =
            (8 + StrLen("MotionPhoto_Version") + 4)
            + (8 + StrLen("MotionPhoto_Data") + Len(tags.video_bytes))
            + (8 + 4 + 4 + (8 + 4 + 4) * 2 + 4 + 4)

\* C6 as amended: the footer of a video of length L is
\* (8 + 19 + 4) + (8 + 16 + L) + (4 + 4 + 4 + (4+4+4)*2 + 4 + 4) bytes long.
C6_FooterLength ==
    IsSome(out.footer) =>
        Len(Val(out.footer)) =
            (8 + StrLen("MotionPhoto_Version") + 4)
            + (8 + StrLen("MotionPhoto_Data") + Len(tags.video_bytes))
            + (4 + 4 + 4 + (4 + 4 + 4) * 2 + 4 + 4)

C6_Witness == IsSome(out.footer) /\ Len(tags.video_bytes) = MaxVideoLen

\* C7: get_image_padding() is where the raw video bytes begin in video_footer():
\* the L bytes from that index are the video, they lie in the tag-record region,
\* and what precedes them is the records serialized before MotionPhoto_Data plus
\* that record's own prefix (sizing and serialization walk the table alike).
C7_PaddingLocatesVideo ==
    (IsSome(out.padding) /\ IsSome(out.footer)) =>
        LET f == Val(out.footer)
            p == Val(out.padding)
            d == TagIndex("MotionPhoto_Data")
        IN  /\ p >= 0
            /\ p + Len(tags.video_bytes) <= SefhStart(f)
            /\ SubSeq(f, p + 1, p + Len(tags.video_bytes)) = tags.video_bytes
            /\ SubSeq(f, 1, p) = Records(1, d - 1) \o RecordPrefix(d)

C7_Witness ==
    /\ IsSome(out.padding) /\ IsSome(out.footer)
    /\ tags.video_bytes = <<255, 0, 255>>

\* C8 as stated: for an empty video get_video_size() is the size of the header
\* block plus the size of the MotionPhoto_Data record's prefix.
C8_HeaderPlusDataPrefix ==
    (IsSome(out.video_size) /\ Len(tags.video_bytes) = 0) =>
        Val(out.video_size) =
            HeaderBlockLen(video_footer(tags))
            + Len(RecordPrefix(TagIndex("MotionPhoto_Data")))

\* C8 as amended: for an empty video get_video_size() returns a value, the size of
\* the header block plus the size of the whole MotionPhoto_Version record.
C8_HeaderPlusVersionRecord ==
    (IsSome(out.video_size) /\ Len(tags.video_bytes) = 0) =>
        Val(out.video_size) =
            HeaderBlockLen(video_footer(tags))
            + RecordLen(TagIndex("MotionPhoto_Version"))

C8_Witness == IsSome(out.video_size) /\ Len(tags.video_bytes) = 0

(***************************************************************************)
(* Claims about the sidecar rendering (specification SpecXmp).             *)
(***************************************************************************)
PieceAt(text) == CHOOSE i \in DOMAIN MOTION_PHOTO_XMP_TEMPLATE :
                    MOTION_PHOTO_XMP_TEMPLATE[i] = text

\* C9: the rendered descriptor is the template with exactly two substitutions,
\* the primary entry's Item:Padding and the video entry's Item:Length; the
\* primary entry's Item:Length stays "0" and no placeholder remains.
C9_ExactlyTwoSubstitutions ==
    IsSome(xmp.content) =>
        Val(xmp.content) =
            [MOTION_PHOTO_XMP_TEMPLATE EXCEPT
                ![PieceAt("Item:Padding=\"{padding}\"")] =
                    "Item:Padding=\"" \o Decimal(xmp.padding) \o "\"",
                ![PieceAt("Item:Length=\"{length}\"")] =
                    "Item:Length=\"" \o Decimal(xmp.video_size) \o "\""]

(***************************************************************************)
(* Claims about the combination loop (specification SpecBatch).            *)
(***************************************************************************)
\* the Motion-Photo job of post i is failing or has failed
JobFails(i) ==
    /\ batch.idx = i
    /\ batch.bpc = "in_mux"
    /\ \/ pc[1] = "except"
       \/ Ended(1) /\ ret[1] # "True"

\* C4: once the Motion-Photo job of a post fails, the loop still visits every
\* remaining post and the run reaches its end.
C4_FailureAbortsOnlyThatJob ==
    \A i \in 1..NPosts :
        JobFails(i) ~> (batch.bpc = "finished" /\ batch.visited = 1..NPosts)

\* the first post's job failed, the last post's job then muxed its image
C4_Witness ==
    /\ batch.bpc = "finished"
    /\ 1 \in batch.failed
    /\ batch.visited = 1..NPosts
    /\ NPosts \notin batch.failed
    /\ CombinedPath(NPosts) \in DOMAIN fs
    /\ fs[CombinedPath(NPosts)].trail # << >>

(***************************************************************************)
(* Claims about concurrent calls (specification SpecConc).                 *)
(***************************************************************************)
\* C10: two calls running at once on two distinct image paths do not disturb each
\* other: when both have ended and nothing in the environment failed, each has
\* returned True, left its own complete muxed file at its image path, and left no
\* sidecar or working copy, as it does when run alone.
C10_DistinctImagesSafe ==
    ( /\ job[1].image_path # job[2].image_path
      /\ \A j \in JobIds : Ended(j)
      /\ faults = 0 )
    => \A j \in JobIds :
          /\ ret[j] = "True"
          /\ Exists(job[j].image_path)
          /\ fs[job[j].image_path] = CompleteImage(j)
          /\ ~Exists(SidecarOf(j))
          /\ ~Exists(WorkingCopyOf(j))

(***************************************************************************)
(* Claims about deletion failures and step order (specification Spec).     *)
(***************************************************************************)
\* nothing but a deletion can have failed in call j: the video is there and no
\* write, copy, read or tool run was made to fail
OnlyDeletionsFail(j) == Exists(job[j].video_path) /\ faults = 0

\* C11: a failed deletion of the sidecar or of the working copy does not change
\* the outcome: a call in which nothing but a deletion failed ends with the muxed
\* file written and True returned, and no exception ever escapes the call.
C11_DeletionFailureIsBestEffort ==
    \A j \in JobIds :
        Ended(j) =>
            /\ ret[j] # "raised"
            /\ OnlyDeletionsFail(j) =>
                  /\ ret[j] = "True"
                  /\ fs[job[j].image_path] = CompleteImage(j)

\* the steps of create_motion_photo in the order of its text
StepOrder ==
    << "read_video", "compute", "write_sidecar", "copy_image", "run_tool",
       "delete_sidecar", "read_temp", "delete_temp", "footer", "write_final" >>

StepRank(s) == CHOOSE i \in DOMAIN StepOrder : StepOrder[i] = s

\* C12: the steps a call takes occur in the order video read, padding and
\* video_size computed, sidecar written, working copy created, tool run (once),
\* sidecar deleted, working copy read, working copy deleted, write of image_path;
\* a successful call takes all of them; the exit status is examined only with the
\* sidecar deleted; no temporary exists before the computation; image_path is
\* not written before the final step.  (Only a deletion that was refused is
\* attempted a second time, by the handler.)
C12_StepsInOrder ==
    \A j \in JobIds :
        pc[j] # "idle" =>
            LET t == trace[j]
            IN  /\ \A a, b \in DOMAIN t :
                      a < b => \/ StepRank(t[a]) < StepRank(t[b])
                               \/ /\ t[a] = t[b]
                                  /\ t[a] \in {"delete_sidecar", "delete_temp"}
                                  /\ pc[j] = "raised"
                /\ ret[j] = "True" => t = StepOrder
                /\ pc[j] = "check_status" =>
                      /\ t[Len(t)] = "delete_sidecar"
                      /\ ~Exists(SidecarOf(j))
                /\ (\A i \in DOMAIN t : t[i] # "compute") =>
                      /\ ~Exists(SidecarOf(j))
                      /\ ~Exists(WorkingCopyOf(j))
                /\ (\A i \in DOMAIN t : t[i] # "write_final") =>
                      fs[job[j].image_path] = OrigImage(j)

\* a call that went through every step and returned True
C12_Witness ==
    /\ ret[1] = "True"
    /\ trace[1] = StepOrder
    /\ fs[job[1].image_path] = CompleteImage(1)

\* C13: in a successful mux the Item:Length written to the sidecar (the video
\* entry's) is the length of the footer appended to the final file minus the
\* Item:Padding written to the sidecar, and the footer appended after
\* set_image_size was called is the footer of the freshly built encoder.
C13_LengthMatchesFooter ==
    \A j \in JobIds :
        ret[j] = "True" =>
            LET final   == fs[job[j].image_path]
                sidecar == Val(loc[j].xmp_content)
                padding == Val(loc[j].image_padding)
            IN  /\ sidecar[PieceAt("Item:Padding=\"{padding}\"")] =
                      "Item:Padding=\"" \o Decimal(padding) \o "\""
                /\ sidecar[PieceAt("Item:Length=\"{length}\"")] =
                      "Item:Length=\"" \o Decimal(Len(final.trail) - padding) \o "\""
                /\ final.meta = sidecar
                /\ IsSome(Val(loc[j].tags).image_size)
                /\ final.trail = video_footer(NewSamsungTags(VideoOf(j)))

\* a successful mux of the longest video
C13_Witness ==
    /\ ret[1] = "True"
    /\ Len(VideoOf(1)) = MaxMuxVideoLen
    /\ Len(fs[job[1].image_path].trail) > Val(loc[1].image_padding)

(***************************************************************************)
(* Claims about the tag table (specification SpecTags).                    *)
(***************************************************************************)
\* C14 as stated: the table lists MotionPhoto_Version, then MotionPhoto_Data, and
\* get_image_padding() is the size of the whole MotionPhoto_Version record.
C14_PaddingIsVersionRecord ==
    IsSome(out.padding) =>
        /\ TagIndex("MotionPhoto_Version") < TagIndex("MotionPhoto_Data")
        /\ Val(out.padding) = RecordLen(TagIndex("MotionPhoto_Version"))

\* C14 as amended: the table lists MotionPhoto_Data, then MotionPhoto_Version,
\* and for every video length get_image_padding() is the size of the
\* MotionPhoto_Data record's prefix: type code, 4-byte length field, 16 name
\* bytes, 24 in all; no record precedes it.
C14_PaddingIsDataPrefix ==
    IsSome(out.padding) =>
        /\ NTags = 2
        /\ TagIndex("MotionPhoto_Data") = 1
        /\ TagIndex("MotionPhoto_Version") = 2
        /\ Val(out.padding) = Len(RecordPrefix(TagIndex("MotionPhoto_Data")))
        /\ Val(out.padding) = 4 + 4 + 16

C14_Witness == IsSome(out.padding) /\ Len(tags.video_bytes) = MaxVideoLen

\* C15: in the header block each entry's offset is the sum of the record lengths
\* of its tag and of every later tag, the distance from the start of its record
\* to "SEFH"; for a video of length L the MotionPhoto_Data entry carries offset
\* 55 + L and length 24 + L, the MotionPhoto_Version entry offset 31 and length 31.
C15_HeaderEntryValues ==
    IsSome(out.footer) =>
        LET f == Val(out.footer)
            L == Len(tags.video_bytes)
            d == ParsedEntry(f, TagIndex("MotionPhoto_Data"))
            v == ParsedEntry(f, TagIndex("MotionPhoto_Version"))
            RecordStart(i) == SumRecordLens(1, i - 1)
        IN  /\ \A i \in 1..NTags :
                  /\ ParsedEntry(f, i).offset = SumRecordLens(i, NTags)
                  /\ ParsedEntry(f, i).offset = SefhStart(f) - RecordStart(i)
            /\ d.code = <<0, 0, 48, 10>> /\ d.offset = 55 + L /\ d.length = 24 + L
            /\ v.code = <<0, 0, 49, 10>> /\ v.offset = 31 /\ v.length = 31

C15_Witness ==
    /\ IsSome(out.footer)
    /\ Len(tags.video_bytes) = 2
    /\ ParsedEntry(Val(out.footer), 1).offset = 57
    /\ ParsedEntry(Val(out.footer), 2).offset = 31

====
